---- MODULE Spec2Model ----
(***************************************************************************)
(* Model of etl_connector.py: the OTX Extract -> Transform -> Load         *)
(* pipeline of OTXETLConnector, its connection probe and main.             *)
(*                                                                         *)
(* Python values are records [t |-> tag, v |-> payload]:                   *)
(*   none  (None / JSON null)       bool  (v is a BOOLEAN)                 *)
(*   num   (v is an integer)        str   (v is the sequence of its chars) *)
(*   list  (v is a sequence)        obj   (v is a function on its keys)    *)
(* A call that may raise returns [exc |-> name or "none", val |-> value].  *)
(***************************************************************************)
EXTENDS Integers, Sequences, FiniteSets, TLC

VARIABLES pc, now, requests, responses, sleeps, raw_data, transformed_data,
          loaded_count, store, storeOps, calls, result, exc

vars == <<pc, now, requests, responses, sleeps, raw_data, transformed_data,
          loaded_count, store, storeOps, calls, result, exc>>

(* ------------------------------ bounds --------------------------------- *)

\* longest `results` sequence given to transform_data on its own
MaxResults == 3
\* longest `results` sequence in a response body of a pipeline run
MaxBodyResults == 2

(* ------------------------- program constants --------------------------- *)

RATE_LIMITED == 429
SLEEP_SECONDS == 60
DEFAULT_LIMIT == 50
DEFAULT_ENDPOINT == "/api/v1/pulses/subscribed"
PROBE_ENDPOINT == "/api/v1/user/me"
SOURCE_TAG == "otx_alienvault"

(* --------------------------- Python values ----------------------------- *)

None == [t |-> "none", v |-> 0]
Bool(b) == [t |-> "bool", v |-> b]
Num(n) == [t |-> "num", v |-> n]
Str(s) == [t |-> "str", v |-> s]
List(s) == [t |-> "list", v |-> s]
Obj(f) == [t |-> "obj", v |-> f]

EmptyStr == Str(<<>>)
EmptyList == List(<<>>)
EmptyObj == Obj(<<>>)

Ok(x) == [exc |-> "none", val |-> x]
Raise(e) == [exc |-> e, val |-> None]

\* bool(x): None, False, 0, "", [] and {} are falsy
Truthy(x) ==
  CASE x.t = "none" -> FALSE
    [] x.t = "bool" -> x.v
    [] x.t = "num" -> x.v # 0
    [] x.t = "obj" -> DOMAIN x.v # {}
    [] OTHER -> Len(x.v) # 0

\* len(x) is defined for str, list and dict only
HasLen(x) == x.t \in {"str", "list", "obj"}

PyLen(x) == IF x.t = "obj" THEN Cardinality(DOMAIN x.v) ELSE Len(x.v)

\* dict.get(k, default)
Get(o, k, d) == IF k \in DOMAIN o.v THEN o.v[k] ELSE d

\* the characters of the key 'results'
ResultsChars == <<"r", "e", "s", "u", "l", "t", "s">>

\* `'results' in x` is defined for dict (key), list (element), str (substring)
CanContain(x) == x.t \in {"str", "list", "obj"}

ContainsResults(x) ==
  CASE x.t = "obj" -> "results" \in DOMAIN x.v
    [] x.t = "list" -> \E i \in 1..Len(x.v) : x.v[i] = Str(ResultsChars)
    [] x.t = "str" -> \E i \in 1..Len(x.v) :
                         /\ i + Len(ResultsChars) - 1 <= Len(x.v)
                         /\ SubSeq(x.v, i, i + Len(ResultsChars) - 1) = ResultsChars
    [] OTHER -> FALSE

RECURSIVE SetToSeq(_)
SetToSeq(S) ==
  IF S = {} THEN <<>>
  ELSE LET k == CHOOSE k \in S : TRUE IN <<k>> \o SetToSeq(S \ {k})

\* the items `for pulse in x` visits: list elements, the one-character
\* strings of a str, the keys of a dict (keys here are single characters)
Iterable(x) == x.t \in {"str", "list", "obj"}

Iterate(x) ==
  CASE x.t = "list" -> x.v
    [] x.t = "str" -> [i \in 1..Len(x.v) |-> Str(<<x.v[i]>>)]
    [] x.t = "obj" -> LET ks == SetToSeq(DOMAIN x.v)
                      IN [i \in 1..Len(ks) |-> Str(<<ks[i]>>)]
    [] OTHER -> <<>>

(* ---------------------------- transform_data --------------------------- *)

\* BuildDocument with indicators_count taken from the wrong field
BuildDocument_CountTags(pulse, ts) ==
  [ pulse_id |-> Get(pulse, "id", None),
    name |-> Get(pulse, "name", EmptyStr),
    description |-> Get(pulse, "description", EmptyStr),
    author_name |-> Get(pulse, "author_name", EmptyStr),
    created |-> Get(pulse, "created", None),
    modified |-> Get(pulse, "modified", None),
    tags |-> Get(pulse, "tags", EmptyList),
    references |-> Get(pulse, "references", EmptyList),
    public |-> Get(pulse, "public", Bool(FALSE)),
    indicators_count |-> PyLen(Get(pulse, "tags", EmptyList)),
    indicators |-> Get(pulse, "indicators", EmptyList),
    malware_families |-> Get(pulse, "malware_families", EmptyList),
    attack_ids |-> Get(pulse, "attack_ids", EmptyList),
    ingestion_timestamp |-> ts,
    source |-> SOURCE_TAG,
    raw_data |-> pulse ]

\* BuildDocument with True for the default of `public`
BuildDocument_PublicByDefault(pulse, ts) ==
  [ pulse_id |-> Get(pulse, "id", None),
    name |-> Get(pulse, "name", EmptyStr),
    description |-> Get(pulse, "description", EmptyStr),
    author_name |-> Get(pulse, "author_name", EmptyStr),
    created |-> Get(pulse, "created", None),
    modified |-> Get(pulse, "modified", None),
    tags |-> Get(pulse, "tags", EmptyList),
    references |-> Get(pulse, "references", EmptyList),
    public |-> Get(pulse, "public", Bool(TRUE)),
    indicators_count |-> PyLen(Get(pulse, "indicators", EmptyList)),
    indicators |-> Get(pulse, "indicators", EmptyList),
    malware_families |-> Get(pulse, "malware_families", EmptyList),
    attack_ids |-> Get(pulse, "attack_ids", EmptyList),
    ingestion_timestamp |-> ts,
    source |-> SOURCE_TAG,
    raw_data |-> pulse ]

\* the dict literal of lines 70-88
BuildDocument(pulse, ts) ==
  [ pulse_id |-> Get(pulse, "id", None),
    name |-> Get(pulse, "name", EmptyStr),
    description |-> Get(pulse, "description", EmptyStr),
    author_name |-> Get(pulse, "author_name", EmptyStr),
    created |-> Get(pulse, "created", None),
    modified |-> Get(pulse, "modified", None),
    tags |-> Get(pulse, "tags", EmptyList),
    references |-> Get(pulse, "references", EmptyList),
    public |-> Get(pulse, "public", Bool(FALSE)),
    indicators_count |-> PyLen(Get(pulse, "indicators", EmptyList)),
    indicators |-> Get(pulse, "indicators", EmptyList),
    malware_families |-> Get(pulse, "malware_families", EmptyList),
    attack_ids |-> Get(pulse, "attack_ids", EmptyList),
    ingestion_timestamp |-> ts,
    source |-> SOURCE_TAG,
    raw_data |-> pulse ]

\* the body of the try block for one record: pulse.get raises AttributeError
\* on anything but a dict, len() raises TypeError on a value without length
MapRecord(pulse, ts) ==
  IF pulse.t # "obj" THEN Raise("AttributeError")
  ELSE IF ~HasLen(Get(pulse, "indicators", EmptyList)) THEN Raise("TypeError")
  ELSE Ok(BuildDocument(pulse, ts))

\* TransformLoop with the try around the whole loop: the first record that
\* raises ends the batch
RECURSIVE TransformLoop_AbortOnRaise(_, _)
TransformLoop_AbortOnRaise(pulses, ts) ==
  IF pulses = <<>> THEN <<>>
  ELSE LET r == MapRecord(Head(pulses), ts)
       IN IF r.exc = "none"
          THEN <<r.val>> \o TransformLoop_AbortOnRaise(Tail(pulses), ts)
          ELSE <<>>

\* TransformLoop with the append outside the try: a record that raises
\* still contributes a document, built from an empty record
RECURSIVE TransformLoop_KeepFailed(_, _)
TransformLoop_KeepFailed(pulses, ts) ==
  IF pulses = <<>> THEN <<>>
  ELSE LET r == MapRecord(Head(pulses), ts)
       IN (IF r.exc = "none" THEN <<r.val>> ELSE <<BuildDocument(EmptyObj, ts)>>)
            \o TransformLoop_KeepFailed(Tail(pulses), ts)

\* the for loop of lines 67-94: append on success, continue on any Exception
RECURSIVE TransformLoop(_, _)
TransformLoop(pulses, ts) ==
  IF pulses = <<>> THEN <<>>
  ELSE LET r == MapRecord(Head(pulses), ts)
       IN (IF r.exc = "none" THEN <<r.val>> ELSE <<>>)
            \o TransformLoop(Tail(pulses), ts)

\* transform_data without the guard of line 61
transform_data_NoGuard(raw, ts) ==
  IF raw.t # "obj" THEN Raise("TypeError")
  ELSE IF "results" \notin DOMAIN raw.v THEN Raise("KeyError")
  ELSE IF ~Iterable(raw.v["results"]) THEN Raise("TypeError")
  ELSE Ok(TransformLoop(Iterate(raw.v["results"]), ts))

transform_data(raw, ts) ==
  IF ~Truthy(raw) THEN Ok(<<>>)
  ELSE IF ~CanContain(raw) THEN Raise("TypeError")
  ELSE IF ~ContainsResults(raw) THEN Ok(<<>>)
  ELSE IF raw.t # "obj" THEN Raise("TypeError")
  ELSE IF ~Iterable(raw.v["results"]) THEN Raise("TypeError")
  ELSE Ok(TransformLoop(Iterate(raw.v["results"]), ts))

(* ----------------------------- extract_data ---------------------------- *)

\* a response body that response.json() cannot decode
NotJson == [t |-> "notjson", v |-> 0]

TransportError == [kind |-> "error", status |-> 0, body |-> NotJson]
Http(s, b) == [kind |-> "http", status |-> s, body |-> b]

\* response.raise_for_status() raises HTTPError on 4xx and 5xx
RaisesForStatus(s) == s >= 400 /\ s < 600

\* lines 46-57 on the response that is current when line 46 is reached;
\* requests.get raising lands in the same except clause.  Only
\* RequestException and JSONDecodeError are caught: the AttributeError of
\* data.get on a non-dict and the TypeError of len() on a value without
\* length leave extract_data.
extract_tail(resp) ==
  IF resp.kind = "error" THEN Ok(None)
  ELSE IF RaisesForStatus(resp.status) THEN Ok(None)
  ELSE IF resp.body = NotJson THEN Ok(None)
  ELSE IF resp.body.t # "obj" THEN Raise("AttributeError")
  ELSE IF ~HasLen(Get(resp.body, "results", EmptyList)) THEN Raise("TypeError")
  ELSE Ok(resp.body)

\* IsRateLimited with `>=` for `==`: every status from 429 up is retried
IsRateLimited_AnyError(resp) == resp.kind = "http" /\ resp.status >= RATE_LIMITED

\* line 41
IsRateLimited(resp) == resp.kind = "http" /\ resp.status = RATE_LIMITED

\* the request of lines 34-38 and 44
ExtractRequest(ts) ==
  [endpoint |-> DEFAULT_ENDPOINT, params |-> {<<"limit", DEFAULT_LIMIT>>}, at |-> ts]

(* ------------------------------ load_data ------------------------------ *)

\* what collection.insert_many can do with a batch: persist a prefix of k
\* documents and raise, or persist all of them and return their ids
InsertOutcomes(docs) ==
  {o \in [k : 0..Len(docs), ok : BOOLEAN] : o.ok => o.k = Len(docs)}

\* the log of store operations: each with the documents sent, the number
\* of them the store persisted, and whether the operation raised
InsertOp(docs, o) ==
  [op |-> "insert_many", docs |-> docs, persisted |-> o.k, raised |-> ~o.ok]
PingOp(ok) == [op |-> "ping", docs |-> <<>>, persisted |-> 0, raised |-> ~ok]

\* load_data without the short-circuit of lines 101-103
load_data_NoShortCircuit(docs, st, ops, o) ==
  [exc |-> "none",
   ret |-> IF o.ok THEN Len(docs) ELSE 0,
   store |-> st \o SubSeq(docs, 1, o.k),
   ops |-> Append(ops, InsertOp(docs, o))]

\* load_data with `except BulkWriteError` in place of `except Exception`:
\* an error raised before any document is written leaves load_data
load_data_NarrowExcept(docs, st, ops, o) ==
  IF docs = <<>> THEN [exc |-> "none", ret |-> 0, store |-> st, ops |-> ops]
  ELSE [exc |-> IF ~o.ok /\ o.k = 0 THEN "ConnectionFailure" ELSE "none",
        ret |-> IF o.ok THEN Len(docs) ELSE 0,
        store |-> st \o SubSeq(docs, 1, o.k),
        ops |-> Append(ops, InsertOp(docs, o))]

\* load_data that sends the batch again when insert_many raised
load_data_RetryOnError(docs, st, ops, o) ==
  IF docs = <<>> THEN [exc |-> "none", ret |-> 0, store |-> st, ops |-> ops]
  ELSE [exc |-> "none",
        ret |-> IF o.ok THEN Len(docs) ELSE 0,
        store |-> st \o SubSeq(docs, 1, o.k),
        ops |-> IF o.ok THEN Append(ops, InsertOp(docs, o))
                ELSE Append(Append(ops, InsertOp(docs, o)), InsertOp(docs, o))]

\* lines 99-115; o is the outcome of insert_many when it is reached.
\* `except Exception` (line 113) catches whatever insert_many raises.
load_data(docs, st, ops, o) ==
  IF docs = <<>> THEN [exc |-> "none", ret |-> 0, store |-> st, ops |-> ops]
  ELSE [exc |-> "none",
        ret |-> IF o.ok THEN Len(docs) ELSE 0,
        store |-> st \o SubSeq(docs, 1, o.k),
        ops |-> Append(ops, InsertOp(docs, o))]

(* ------------------------------- inputs -------------------------------- *)

SeqsUpTo(S, n) == UNION {[1..k -> S] : k \in 0..n}

Indicator(n) == Obj([a |-> Num(n)])

PulseFull ==
  Obj([id |-> Str(<<"p", "1">>), name |-> Str(<<"X">>),
       indicators |-> List(<<Indicator(1), Indicator(2)>>)])
PulseBare == Obj([id |-> Str(<<"p", "2">>)])
PulseStrIndicators ==
  Obj([id |-> Str(<<"p", "3">>), indicators |-> Str(<<"a", "b", "c">>),
       public |-> Bool(TRUE)])
PulseNoLen == Obj([id |-> Str(<<"p", "4">>), indicators |-> None])
NotAMapping == Num(7)
\* a pulse with every field of the API contract present
PulseComplete ==
  Obj([id |-> Str(<<"p", "5">>), name |-> Str(<<"N">>),
       description |-> Str(<<"d">>), author_name |-> Str(<<"a">>),
       created |-> Str(<<"c">>), modified |-> Str(<<"m">>),
       tags |-> List(<<Str(<<"t">>), Str(<<"u">>)>>),
       references |-> List(<<Str(<<"r">>)>>), public |-> Bool(TRUE),
       indicators |-> List(<<Indicator(3)>>),
       malware_families |-> List(<<Str(<<"f">>)>>),
       attack_ids |-> List(<<Str(<<"T">>)>>)])

RawRecords ==
  { PulseFull, PulseBare, PulseStrIndicators, PulseNoLen, NotAMapping,
    EmptyObj, PulseComplete }

WithResults(x) == Obj([results |-> x])

\* bodies and arguments that are not an object holding a `results` list
OddValues ==
  { None, Num(0), Num(5), Bool(FALSE), Bool(TRUE), EmptyStr, Str(<<"x">>),
    Str(ResultsChars), EmptyList, List(<<PulseFull>>),
    List(<<Str(ResultsChars)>>), EmptyObj, Obj([count |-> Num(3)]),
    WithResults(None), WithResults(Num(5)), WithResults(Str(<<"a", "b">>)),
    WithResults(Obj([a |-> Num(1)])) }

TransformInputs ==
  OddValues \cup {WithResults(List(s)) : s \in SeqsUpTo(RawRecords, MaxResults)}

Bodies ==
  {NotJson} \cup OddValues
    \cup {WithResults(List(s)) : s \in SeqsUpTo(RawRecords, MaxBodyResults)}

\* bodies of responses whose status is an error status
ErrorBodies == {NotJson, EmptyObj, WithResults(List(<<PulseBare>>))}

Statuses == {200, 429, 500, 503}

Responses ==
  {TransportError} \cup {Http(200, b) : b \in Bodies}
    \cup {Http(s, b) : s \in Statuses \ {200}, b \in ErrorBodies}

ProbeResponses == {TransportError} \cup {Http(s, EmptyObj) : s \in Statuses}

\* a document already in the collection when the connector is constructed
PreExisting == BuildDocument(Obj([id |-> Str(<<"o", "l", "d">>)]), 0)

InitialStores == {<<>>, <<PreExisting>>}

(* -------------------------- the program: main -------------------------- *)

Init ==
  /\ pc = "probe_api"
  /\ now = 0
  /\ requests = <<>>
  /\ responses = <<>>
  /\ sleeps = 0
  /\ raw_data = None
  /\ transformed_data = <<>>
  /\ loaded_count = -1   \* no value yet
  /\ store \in InitialStores
  /\ storeOps = <<>>
  /\ calls = <<"test_connection">>
  /\ result = "none"
  /\ exc = "none"

\* ApiProbeOk accepting every response that arrived, whatever its status
ApiProbeOk_AnyStatus(resp) == resp.kind = "http"

\* line 158, and the except clause of lines 163-165 for a request that raised
ApiProbeOk(resp) == resp.kind = "http" /\ resp.status = 200

\* test_connection, lines 156-165; on failure main returns (lines 181-183)
ProbeApi ==
  /\ pc = "probe_api"
  /\ \E resp \in ProbeResponses :
       /\ requests' = Append(requests, [endpoint |-> PROBE_ENDPOINT, params |-> {}, at |-> now])
       /\ responses' = Append(responses, resp)
       /\ pc' = IF ApiProbeOk(resp) THEN "probe_ping" ELSE "NOT_RUN"
  /\ UNCHANGED <<now, sleeps, raw_data, transformed_data, loaded_count, store,
                 storeOps, calls, result, exc>>

\* ProbePing with main running the pipeline whatever test_connection returned
ProbePing_NoGate ==
  /\ pc = "probe_ping"
  /\ \E ok \in BOOLEAN : storeOps' = Append(storeOps, PingOp(ok))
  /\ pc' = "EXTRACT_get1"
  /\ calls' = calls \o <<"run_etl_pipeline", "extract_data">>
  /\ UNCHANGED <<now, requests, responses, sleeps, raw_data, transformed_data,
                 loaded_count, store, exc, result>>

\* test_connection, lines 168-174, then main lines 181-186 and
\* run_etl_pipeline lines 119-124 up to the call of extract_data
ProbePing ==
  /\ pc = "probe_ping"
  /\ \E ok \in BOOLEAN :
       /\ storeOps' = Append(storeOps, PingOp(ok))
       /\ IF ok
          THEN /\ pc' = "EXTRACT_get1"
               /\ calls' = calls \o <<"run_etl_pipeline", "extract_data">>
          ELSE /\ pc' = "NOT_RUN"
               /\ calls' = calls
  /\ UNCHANGED <<now, requests, responses, sleeps, raw_data, transformed_data,
                 loaded_count, store, exc, result>>

\* ExtractReturn without the check of lines 126-128
ExtractReturn_NoAbort(resp) ==
  LET r == extract_tail(resp)
  IN IF r.exc # "none"
     THEN /\ exc' = r.exc
          /\ pc' = "CRASHED"
          /\ UNCHANGED <<raw_data, result>>
     ELSE /\ raw_data' = r.val
          /\ exc' = exc
          /\ pc' = "TRANSFORM"
          /\ result' = result

\* ExtractReturn with `if raw_data is None` for `if not raw_data`
ExtractReturn_NoneCheck(resp) ==
  LET r == extract_tail(resp)
  IN IF r.exc # "none"
     THEN /\ exc' = r.exc
          /\ pc' = "CRASHED"
          /\ UNCHANGED <<raw_data, result>>
     ELSE /\ raw_data' = r.val
          /\ exc' = exc
          /\ IF r.val = None
             THEN pc' = "ABORT" /\ result' = "False"
             ELSE pc' = "TRANSFORM" /\ result' = result

\* the end of extract_data (lines 46-57) on response resp, and lines 124-131
\* of run_etl_pipeline: an uncaught exception leaves the run, a falsy
\* result aborts it
ExtractReturn(resp) ==
  LET r == extract_tail(resp)
  IN IF r.exc # "none"
     THEN /\ exc' = r.exc
          /\ pc' = "CRASHED"
          /\ UNCHANGED <<raw_data, result>>
     ELSE /\ raw_data' = r.val
          /\ exc' = exc
          /\ IF ~Truthy(r.val)
             THEN pc' = "ABORT" /\ result' = "False"
             ELSE pc' = "TRANSFORM" /\ result' = result

\* extract_data, lines 33-41 (and 46-57 when the status is not 429)
ExtractGet1 ==
  /\ pc = "EXTRACT_get1"
  /\ requests' = Append(requests, ExtractRequest(now))
  /\ \E resp \in Responses :
       /\ responses' = Append(responses, resp)
       /\ IF IsRateLimited(resp)
          THEN pc' = "EXTRACT_sleep" /\ UNCHANGED <<raw_data, result, exc>>
          ELSE ExtractReturn(resp)
  /\ UNCHANGED <<now, sleeps, transformed_data, loaded_count, store, storeOps, calls>>

\* ExtractSleep without the wait of line 43
ExtractSleep_NoWait ==
  /\ pc = "EXTRACT_sleep"
  /\ sleeps' = sleeps
  /\ pc' = "EXTRACT_get2"
  /\ UNCHANGED <<now, requests, responses, raw_data, transformed_data,
                 loaded_count, store, storeOps, calls, result, exc>>

\* extract_data, lines 42-43
ExtractSleep ==
  /\ pc = "EXTRACT_sleep"
  /\ now' = now + SLEEP_SECONDS
  /\ sleeps' = sleeps + 1
  /\ pc' = "EXTRACT_get2"
  /\ UNCHANGED <<requests, responses, raw_data, transformed_data, loaded_count,
                 store, storeOps, calls, result, exc>>

\* extract_data, lines 44-57
ExtractGet2 ==
  /\ pc = "EXTRACT_get2"
  /\ requests' = Append(requests, ExtractRequest(now))
  /\ \E resp \in Responses :
       /\ responses' = Append(responses, resp)
       /\ ExtractReturn(resp)
  /\ UNCHANGED <<now, sleeps, transformed_data, loaded_count, store, storeOps, calls>>

\* Transform that goes back to extraction when nothing was transformed
Transform_ReExtract ==
  /\ pc = "TRANSFORM"
  /\ LET r == transform_data(raw_data, now)
     IN IF r.exc # "none"
        THEN /\ exc' = r.exc
             /\ pc' = "CRASHED"
             /\ calls' = Append(calls, "transform_data")
             /\ UNCHANGED <<transformed_data, result>>
        ELSE /\ transformed_data' = r.val
             /\ exc' = exc
             /\ result' = result
             /\ IF r.val = <<>>
                THEN /\ pc' = "EXTRACT_get1"
                     /\ calls' = calls \o <<"transform_data", "extract_data">>
                ELSE /\ pc' = "LOAD"
                     /\ calls' = Append(calls, "transform_data")
  /\ UNCHANGED <<now, requests, responses, sleeps, raw_data, loaded_count,
                 store, storeOps>>

\* run_etl_pipeline, lines 132-139
Transform ==
  /\ pc = "TRANSFORM"
  /\ calls' = Append(calls, "transform_data")
  /\ LET r == transform_data(raw_data, now)
     IN IF r.exc # "none"
        THEN /\ exc' = r.exc
             /\ pc' = "CRASHED"
             /\ UNCHANGED <<transformed_data, result>>
        ELSE /\ transformed_data' = r.val
             /\ exc' = exc
             /\ IF r.val = <<>>
                THEN pc' = "ABORT" /\ result' = "False"
                ELSE pc' = "LOAD" /\ result' = result
  /\ UNCHANGED <<now, requests, responses, sleeps, raw_data, loaded_count,
                 store, storeOps>>

\* line 149
PipelineResult(count) == IF count > 0 THEN "True" ELSE "False"

\* run_etl_pipeline, lines 140-149
Load ==
  /\ pc = "LOAD"
  /\ calls' = Append(calls, "load_data")
  /\ \E o \in InsertOutcomes(transformed_data) :
       LET r == load_data(transformed_data, store, storeOps, o)
       IN /\ store' = r.store
          /\ storeOps' = r.ops
          /\ exc' = r.exc
          /\ IF r.exc # "none"
             THEN pc' = "CRASHED" /\ UNCHANGED <<loaded_count, result>>
             ELSE /\ pc' = "DONE"
                  /\ loaded_count' = r.ret
                  /\ result' = PipelineResult(r.ret)
  /\ UNCHANGED <<now, requests, responses, sleeps, raw_data, transformed_data>>

Next ==
  \/ ProbeApi
  \/ ProbePing
  \/ ExtractGet1
  \/ ExtractSleep
  \/ ExtractGet2
  \/ Transform
  \/ Load

Spec == Init /\ [][Next]_vars

(* --------------------- transform_data called alone --------------------- *)

InitTransform ==
  /\ pc = "call_transform"
  /\ raw_data \in TransformInputs
  /\ now = 0
  /\ requests = <<>>
  /\ responses = <<>>
  /\ sleeps = 0
  /\ transformed_data = <<>>
  /\ loaded_count = -1
  /\ store = <<>>
  /\ storeOps = <<>>
  /\ calls = <<>>
  /\ result = "none"
  /\ exc = "none"

\* transform_data(raw_data), lines 59-97
CallTransform ==
  /\ pc = "call_transform"
  /\ calls' = Append(calls, "transform_data")
  /\ LET r == transform_data(raw_data, now)
     IN /\ exc' = r.exc
        /\ pc' = IF r.exc = "none" THEN "returned" ELSE "raised"
        /\ transformed_data' = IF r.exc = "none" THEN r.val ELSE transformed_data
  /\ UNCHANGED <<now, requests, responses, sleeps, raw_data, loaded_count,
                 store, storeOps, result>>

SpecTransform == InitTransform /\ [][CallTransform]_vars

(* ------------------------ load_data called alone ----------------------- *)

\* longest batch given to load_data on its own
MaxBatch == 2

LoadInputs == {TransformLoop(s, 0) : s \in SeqsUpTo(RawRecords, MaxBatch)}

InitLoad ==
  /\ pc = "call_load"
  /\ transformed_data \in LoadInputs
  /\ store \in InitialStores
  /\ now = 0
  /\ requests = <<>>
  /\ responses = <<>>
  /\ sleeps = 0
  /\ raw_data = None
  /\ loaded_count = -1
  /\ storeOps = <<>>
  /\ calls = <<>>
  /\ result = "none"
  /\ exc = "none"

\* load_data(transformed_data), lines 99-115
CallLoad ==
  /\ pc = "call_load"
  /\ calls' = Append(calls, "load_data")
  /\ \E o \in InsertOutcomes(transformed_data) :
       LET r == load_data(transformed_data, store, storeOps, o)
       IN /\ store' = r.store
          /\ storeOps' = r.ops
          /\ exc' = r.exc
          /\ pc' = IF r.exc = "none" THEN "returned" ELSE "raised"
          /\ loaded_count' = IF r.exc = "none" THEN r.ret ELSE loaded_count
  /\ UNCHANGED <<now, requests, responses, sleeps, raw_data, transformed_data,
                 result>>

SpecLoad == InitLoad /\ [][CallLoad]_vars

(* ------------------------------- claims -------------------------------- *)

RunEnded == pc \in {"DONE", "ABORT", "CRASHED"}
ExtractEnded == pc \in {"TRANSFORM", "LOAD", "DONE", "ABORT", "CRASHED"}
LastResponse == responses[Len(responses)]
InsertIssued == \E i \in 1..Len(storeOps) : storeOps[i].op = "insert_many"
Invoked(f) == \E i \in 1..Len(calls) : calls[i] = f

\* C1: when extract_data yields None, transform_data and load_data are never
\* invoked and the run returns False; when transform_data yields an empty
\* list, load_data is never invoked, no insert reaches the store and the run
\* returns False.
C1_AbortEdges ==
  /\ (ExtractEnded /\ exc = "none" /\ raw_data = None)
       => /\ pc = "ABORT"
          /\ result = "False"
          /\ ~Invoked("transform_data")
          /\ ~Invoked("load_data")
          /\ ~InsertIssued
  /\ (Invoked("transform_data") /\ exc = "none" /\ transformed_data = <<>>)
       => /\ pc = "ABORT"
          /\ result = "False"
          /\ ~Invoked("load_data")
          /\ ~InsertIssued

\* a run whose retried request fails too: extraction yields None
C1_Witness ==
  /\ pc = "ABORT"
  /\ raw_data = None
  /\ Len(requests) = 3
  /\ LastResponse.kind = "error"
  /\ result = "False"

\* C2: every run ends reporting a boolean, and it reports True exactly when
\* load_data was reached and returned a count greater than 0.
C2_OutcomeEveryRun ==
  RunEnded =>
    /\ result \in {"True", "False"}
    /\ result = "True" <=> (Invoked("load_data") /\ loaded_count > 0)

\* what does hold of line 149: a run that returns reports True exactly when
\* load_data returned a count greater than 0
ReturnedOutcome ==
  pc \in {"DONE", "ABORT"} =>
    /\ result \in {"True", "False"}
    /\ result = "True" <=> (Invoked("load_data") /\ loaded_count > 0)

\* C3: no exception leaves run_etl_pipeline; a run that ends has returned a
\* boolean.
C3_NoExceptionEscapes ==
  /\ exc = "none"
  /\ RunEnded => result \in {"True", "False"}

\* C4: when the first response of extract_data is a 429, exactly one more
\* request is issued, not before the 60-second wait is over, and what
\* extract_data yields is what the second response alone gives.
C4_FirstExtractResponse == responses[2]
C4_RateLimitRetry ==
  (Len(responses) >= 2 /\ C4_FirstExtractResponse.kind = "http"
     /\ C4_FirstExtractResponse.status = RATE_LIMITED)
    => /\ Len(requests) <= 3
       /\ ExtractEnded => Len(requests) = 3
       /\ Len(requests) = 3
            => /\ sleeps = 1
               /\ requests[3].at >= requests[2].at + SLEEP_SECONDS
               /\ requests[3].endpoint = requests[2].endpoint
       /\ ExtractEnded
            => LET r == extract_tail(responses[3])
               IN IF r.exc = "none"
                  THEN exc = "none" /\ raw_data = r.val
                  ELSE exc = r.exc /\ pc = "CRASHED"

\* the retry's body, not the rate-limited response's body, is the result
C4_Witness ==
  /\ pc = "TRANSFORM"
  /\ Len(requests) = 3
  /\ responses[2].status = RATE_LIMITED
  /\ responses[2].body = WithResults(List(<<PulseBare>>))
  /\ raw_data = responses[3].body
  /\ raw_data # responses[2].body

\* a response that is a failure or whose body is malformed: a transport
\* error, an error status, a body that is not JSON, a JSON body that is not
\* an object, or an object whose `results` is not a list
C5_FailedOrMalformed(resp) ==
  \/ resp.kind = "error"
  \/ RaisesForStatus(resp.status)
  \/ resp.body = NotJson
  \/ resp.body.t # "obj"
  \/ ("results" \in DOMAIN resp.body.v /\ resp.body.v["results"].t # "list")

\* C5: on a transport failure, an error status or a malformed body,
\* extract_data returns None and raises nothing.
C5_ExtractContained ==
  (ExtractEnded /\ C5_FailedOrMalformed(LastResponse))
    => (exc = "none" /\ raw_data = None)

\* whether building a document from record p raises
MappingRaises(p) ==
  \/ p.t # "obj"
  \/ ("indicators" \in DOMAIN p.v /\ p.v["indicators"].t \notin {"str", "list", "obj"})

Survivors(s) == {i \in 1..Len(s) : ~MappingRaises(s[i])}
NthSurvivor(s, j) ==
  CHOOSE i \in Survivors(s) : Cardinality({g \in Survivors(s) : g <= i}) = j

HasResultsList ==
  /\ raw_data.t = "obj"
  /\ "results" \in DOMAIN raw_data.v
  /\ raw_data.v["results"].t = "list"
ResultsList == raw_data.v["results"].v

\* C6: the output of transform_data is, in input order, the documents of
\* exactly the records whose mapping does not raise; a record that raises
\* removes no other record's document.
C6_IsolationAndOrder ==
  (pc # "call_transform" /\ HasResultsList)
    => /\ pc = "returned"
       /\ Len(transformed_data) = Cardinality(Survivors(ResultsList))
       /\ \A j \in 1..Len(transformed_data) :
            transformed_data[j]
              = BuildDocument(ResultsList[NthSurvivor(ResultsList, j)], now)

\* a malformed record between two good ones
C6_Witness ==
  /\ pc = "returned"
  /\ HasResultsList
  /\ Len(ResultsList) = 3
  /\ ~MappingRaises(ResultsList[1])
  /\ MappingRaises(ResultsList[2])
  /\ ~MappingRaises(ResultsList[3])
  /\ ResultsList[1] # ResultsList[3]
  /\ Len(transformed_data) = 2

HasResultsWithLen ==
  /\ raw_data.t = "obj"
  /\ "results" \in DOMAIN raw_data.v
  /\ raw_data.v["results"].t \in {"str", "list", "obj"}

\* C7: transform_data returns at most as many documents as `results` has
\* records, and exactly as many if and only if no record raised.
C7_OutputSize ==
  (pc # "call_transform" /\ HasResultsWithLen)
    => LET res == raw_data.v["results"]
           items == Iterate(res)
       IN /\ pc = "returned"
          /\ Len(transformed_data) <= PyLen(res)
          /\ Len(transformed_data) = PyLen(res)
               <=> \A i \in 1..Len(items) : ~MappingRaises(items[i])

\* some records raised, some did not
C7_Witness ==
  /\ pc = "returned"
  /\ HasResultsWithLen
  /\ Len(transformed_data) > 0
  /\ Len(transformed_data) < PyLen(raw_data.v["results"])

\* C8: every document of the output has indicators_count = len(indicators)
\* and carries as raw_data exactly the record it was built from.
C8_DocumentInvariant ==
  (pc = "returned" /\ HasResultsList)
    => \A j \in 1..Len(transformed_data) :
         LET d == transformed_data[j]
             src == ResultsList[NthSurvivor(ResultsList, j)]
         IN /\ d.indicators.t \in {"str", "list", "obj"}
            /\ d.indicators_count = PyLen(d.indicators)
            /\ d.raw_data = src
            /\ d.pulse_id = (IF "id" \in DOMAIN src.v THEN src.v["id"] ELSE None)

\* two documents of different records, one with two indicators
C8_Witness ==
  /\ pc = "returned"
  /\ Len(transformed_data) = 2
  /\ transformed_data[1].raw_data = PulseBare
  /\ transformed_data[1].indicators_count = 0
  /\ transformed_data[2].raw_data = PulseFull
  /\ transformed_data[2].indicators_count = 2

\* a raw response with nothing to transform: None, an empty value, an
\* object without `results`, or an object with an empty `results` sequence
NothingToTransform(raw) ==
  \/ raw = None
  \/ raw \in {EmptyObj, EmptyList, EmptyStr, Num(0), Bool(FALSE)}
  \/ (raw.t = "obj" /\ "results" \notin DOMAIN raw.v)
  \/ (raw.t = "obj" /\ "results" \in DOMAIN raw.v
        /\ raw.v["results"] \in {EmptyList, EmptyStr, EmptyObj})

\* C9: on a raw response with nothing to transform, transform_data returns
\* an empty list and does not raise.
C9_NothingToTransform ==
  (pc # "call_transform" /\ NothingToTransform(raw_data))
    => /\ pc = "returned"
       /\ exc = "none"
       /\ transformed_data = <<>>

\* a non-empty object without `results`
C9_Witness ==
  /\ pc = "returned"
  /\ raw_data = Obj([count |-> Num(3)])
  /\ transformed_data = <<>>

\* C10: load_data on an empty batch returns 0, issues no store operation
\* and leaves the store as it was.
C10_EmptyBatch ==
  [][(pc = "call_load" /\ transformed_data = <<>>)
       => (loaded_count' = 0 /\ storeOps' = storeOps /\ store' = store)]_vars

\* load_data has returned from an empty batch, the collection not empty
C10_Witness ==
  /\ pc = "returned"
  /\ Invoked("load_data")
  /\ transformed_data = <<>>
  /\ loaded_count = 0
  /\ storeOps = <<>>
  /\ store = <<PreExisting>>

\* the bulk insert load_data issued, once it has issued one
LoadInsert == storeOps[Len(storeOps)]

\* C11: whenever the bulk insert raises, load_data returns 0 and raises
\* nothing to its caller.
C11_LoaderContained ==
  (pc # "call_load" /\ storeOps # <<>> /\ LoadInsert.raised)
    => /\ pc = "returned"
       /\ exc = "none"
       /\ loaded_count = 0

\* the insert failed before anything was written
C11_Witness ==
  /\ pc = "returned"
  /\ Len(storeOps) = 1
  /\ LoadInsert.op = "insert_many"
  /\ LoadInsert.raised
  /\ LoadInsert.persisted = 0
  /\ Len(LoadInsert.docs) = 2
  /\ loaded_count = 0

\* C12: the value load_data returns is the number of documents its call
\* added to the store, whether the insert succeeded, failed before any
\* document was written, or failed after some were written.
C12_LoaderAccounting ==
  [][pc = "call_load" => loaded_count' = Len(store') - Len(store)]_vars

CountCalls(f) == Cardinality({i \in 1..Len(calls) : calls[i] = f})

\* C13: test_connection returns true (main goes on to the pipeline) only
\* when the identity request answered 200 and the ping did not raise; on a
\* transport error, another status or a failing ping it returns false
\* (main stops) and no exception leaves it.
C13_ProbeResult ==
  /\ Invoked("run_etl_pipeline")
       => /\ responses[1].kind = "http"
          /\ responses[1].status = 200
          /\ storeOps[1].op = "ping"
          /\ ~storeOps[1].raised
  /\ (Len(responses) >= 1
        /\ (responses[1].kind = "error" \/ responses[1].status # 200))
       => (pc = "NOT_RUN" /\ exc = "none" /\ storeOps = <<>>)
  /\ (storeOps # <<>> /\ storeOps[1].raised)
       => (pc = "NOT_RUN" /\ exc = "none" /\ ~Invoked("run_etl_pipeline"))

\* the API answered 200 and the ping raised
C13_Witness ==
  /\ pc = "NOT_RUN"
  /\ responses[1].kind = "http"
  /\ responses[1].status = 200
  /\ Len(storeOps) = 1
  /\ storeOps[1].raised

\* C14: the pipeline starts only after test_connection returned true and at
\* most once; when the probe fails there is no extract request, no
\* transform, no load and no insert.
C14_EntryGate ==
  /\ calls[1] = "test_connection"
  /\ CountCalls("test_connection") = 1
  /\ CountCalls("run_etl_pipeline") <= 1
  /\ (\/ Invoked("extract_data") \/ Invoked("transform_data")
      \/ Invoked("load_data") \/ Len(requests) >= 2 \/ InsertIssued)
       => /\ Invoked("run_etl_pipeline")
          /\ responses[1].kind = "http" /\ responses[1].status = 200
          /\ Len(storeOps) >= 1 /\ ~storeOps[1].raised
  /\ pc = "NOT_RUN"
       => /\ calls = <<"test_connection">>
          /\ Len(requests) = 1
          /\ requests[1].endpoint = PROBE_ENDPOINT
          /\ ~InsertIssued
          /\ result = "none"

\* the identity request was refused: main stops before the pipeline
C14_Witness ==
  /\ pc = "NOT_RUN"
  /\ responses[1].kind = "http"
  /\ responses[1].status = 503
  /\ storeOps = <<>>
  /\ calls = <<"test_connection">>

\* the calls of one run, in the order of lines 124, 132 and 140
PhaseOrder == <<"run_etl_pipeline", "extract_data", "transform_data", "load_data">>
PipelineCalls == SubSeq(calls, 2, Len(calls))

\* C15: the phases are entered in the order extract, transform, load, each
\* at most once; transform starts only after extraction has returned and
\* load only after transform has returned.
C15_PhaseOrder ==
  /\ Len(PipelineCalls) <= Len(PhaseOrder)
  /\ PipelineCalls = SubSeq(PhaseOrder, 1, Len(PipelineCalls))
  /\ pc \in {"EXTRACT_get1", "EXTRACT_sleep", "EXTRACT_get2"}
       => PipelineCalls = SubSeq(PhaseOrder, 1, 2)
  /\ Invoked("transform_data") => (ExtractEnded /\ pc # "TRANSFORM")
  /\ Invoked("load_data") => pc \in {"DONE", "CRASHED"}
  /\ pc = "LOAD" => (Invoked("transform_data") /\ ~Invoked("load_data"))

\* a run through all three phases, with a retried request
C15_Witness ==
  /\ pc = "DONE"
  /\ calls = <<"test_connection">> \o PhaseOrder
  /\ Len(requests) = 3

\* C16: one call of extract_data issues at most two requests and waits at
\* most once; it issues the second request exactly when the first response
\* is a 429 (a 500 or 503 is not retried); a 429 on the second response is
\* not retried and yields None.
C16_BoundedRetry ==
  /\ Len(requests) <= 3
  /\ sleeps <= 1
  /\ \A i \in 2..Len(requests) : requests[i].endpoint = DEFAULT_ENDPOINT
  /\ ExtractEnded
       => /\ Len(requests) = 3
               <=> (responses[2].kind = "http" /\ responses[2].status = RATE_LIMITED)
          /\ sleeps = 1 <=> Len(requests) = 3
  /\ (ExtractEnded /\ Len(responses) = 3 /\ responses[3].kind = "http"
        /\ responses[3].status = RATE_LIMITED)
       => (pc = "ABORT" /\ raw_data = None /\ exc = "none" /\ result = "False")

\* a 429 answered the first request and the retry
C16_Witness ==
  /\ pc = "ABORT"
  /\ Len(responses) = 3
  /\ responses[2].status = RATE_LIMITED
  /\ responses[3].status = RATE_LIMITED
  /\ sleeps = 1

Inserts == {i \in 1..Len(storeOps) : storeOps[i].op = "insert_many"}

\* C17: a run issues at most one store write; load_data issues exactly one
\* insert_many, carrying the whole batch in transform order, and nothing
\* after it: what the failed insert wrote stays, nothing is sent again.
C17_SingleBulkInsert ==
  /\ Cardinality(Inserts) <= 1
  /\ \A i \in 1..Len(storeOps) : storeOps[i].op \in {"ping", "insert_many"}
  /\ ~Invoked("load_data") => (Inserts = {} /\ store \in InitialStores)
  /\ Invoked("load_data")
       => /\ Cardinality(Inserts) = 1
          /\ transformed_data # <<>>
          /\ LoadInsert.op = "insert_many"
          /\ LoadInsert.docs = transformed_data
          /\ \E s0 \in InitialStores :
               store = s0 \o SubSeq(transformed_data, 1, LoadInsert.persisted)

\* the insert failed after the first of two documents: no second write
C17_Witness ==
  /\ pc = "DONE"
  /\ Len(storeOps) = 2
  /\ LoadInsert.raised
  /\ LoadInsert.persisted = 1
  /\ Len(LoadInsert.docs) = 2
  /\ Len(store) = 1

\* C18: every run that started ends in DONE or ABORT: a state of a run is
\* DONE, ABORT, or has a next step.
C18_ReachesDoneOrAbort ==
  Invoked("run_etl_pipeline") => (pc \in {"DONE", "ABORT"} \/ ENABLED Next)

\* every external call returns: a step that can be taken is taken
SpecFair == Spec /\ WF_vars(Next)

\* what does hold: under SpecFair every run stops, in DONE, in ABORT or
\* with the exception that left it
RunStops == <>(pc \in {"DONE", "ABORT", "CRASHED", "NOT_RUN"})

\* the fields transform_data copies under their own name
CopiedFields ==
  { "name", "description", "author_name", "created", "modified", "tags",
    "references", "public", "indicators", "malware_families", "attack_ids" }

\* what an absent field becomes
DefaultOf(f) ==
  CASE f \in {"name", "description", "author_name"} -> [t |-> "str", v |-> <<>>]
    [] f \in {"created", "modified"} -> [t |-> "none", v |-> 0]
    [] f = "public" -> [t |-> "bool", v |-> FALSE]
    [] OTHER -> [t |-> "list", v |-> <<>>]

\* C19: in every document, each field absent from the record has its
\* default ('' for name, description, author_name; [] for tags, references,
\* indicators, malware_families, attack_ids; False for public; 0 for
\* indicators_count), each present field is the record's value, pulse_id is
\* the record's id and source is 'otx_alienvault'.
C19_FieldMapping ==
  (pc = "returned" /\ HasResultsList)
    => \A j \in 1..Len(transformed_data) :
         LET d == transformed_data[j]
             src == ResultsList[NthSurvivor(ResultsList, j)]
         IN /\ \A f \in CopiedFields :
                 d[f] = (IF f \in DOMAIN src.v THEN src.v[f] ELSE DefaultOf(f))
            /\ d.pulse_id = (IF "id" \in DOMAIN src.v THEN src.v["id"]
                             ELSE [t |-> "none", v |-> 0])
            /\ "indicators" \notin DOMAIN src.v => d.indicators_count = 0
            /\ d.source = "otx_alienvault"
            /\ d.ingestion_timestamp = now

\* a record with every field and a record with none
C19_Witness ==
  /\ pc = "returned"
  /\ Len(transformed_data) = 2
  /\ transformed_data[1].raw_data = PulseComplete
  /\ transformed_data[1].tags = List(<<Str(<<"t">>), Str(<<"u">>)>>)
  /\ transformed_data[1].public = Bool(TRUE)
  /\ transformed_data[2].raw_data = EmptyObj
  /\ transformed_data[2].name = EmptyStr
  /\ transformed_data[2].public = Bool(FALSE)
  /\ transformed_data[2].indicators_count = 0

\* C20: transform_data is invoked only on a truthy result of extract_data;
\* an empty JSON object, fetched with success, aborts the run as None does:
\* the run returns False with neither transform_data nor load_data invoked.
C20_EmptyBodyAborts ==
  /\ Invoked("transform_data")
       => (raw_data # [t |-> "none", v |-> 0] /\ raw_data # [t |-> "obj", v |-> <<>>]
             /\ raw_data.t = "obj" /\ DOMAIN raw_data.v # {})
  /\ (ExtractEnded /\ exc = "none" /\ raw_data = [t |-> "obj", v |-> <<>>])
       => /\ pc = "ABORT"
          /\ result = "False"
          /\ ~Invoked("transform_data")
          /\ ~Invoked("load_data")
          /\ ~InsertIssued

\* the request succeeded with the body {}
C20_Witness ==
  /\ pc = "ABORT"
  /\ LastResponse.kind = "http"
  /\ LastResponse.status = 200
  /\ LastResponse.body = EmptyObj
  /\ raw_data = EmptyObj
  /\ result = "False"

====
